---------------------------- MODULE Spec2Model ----------------------------
(***************************************************************************)
(* A model of github_sync.py: the FileCache JSON cache, the scoped         *)
(* working-directory change of tmp_chdir / GitRepository.check_output,     *)
(* the origin parser and GitRepository.get_last_github_commit.             *)
(*                                                                         *)
(* Text is modelled as a sequence of one-character strings, so that the    *)
(* regular expression, readline().strip(), strptime and the JSON           *)
(* serialisation are computed on characters as the code computes them.     *)
(***************************************************************************)
EXTENDS Integers, Sequences, FiniteSets, TLC

(***************************************************************************)
(* Bounds of the model.                                                    *)
(***************************************************************************)
\* how many times the wall clock may advance in one behaviour
MaxTicks == 2

(***************************************************************************)
(* Program constants.                                                      *)
(***************************************************************************)
\* max_seconds = max_hours * 3600
SecondsPerHour == 3600

\* CACHE_FILE_FILENAME, as the characters of the file name
CACHE_FILE_FILENAME == "/.github-last-commit-cache.json"

(***************************************************************************)
(* Characters.                                                             *)
(***************************************************************************)
Digits == {"0", "1", "2", "3", "4", "5", "6", "7", "8", "9"}

Lower == {"a", "b", "c", "d", "e", "f", "g", "h", "i", "j", "k", "l", "m",
          "n", "o", "p", "q", "r", "s", "t", "u", "v", "w", "x", "y", "z"}

Upper == {"A", "B", "C", "D", "E", "F", "G", "H", "I", "J", "K", "L", "M",
          "N", "O", "P", "Q", "R", "S", "T", "U", "V", "W", "X", "Y", "Z"}

\* the class \w of the re module (no re.UNICODE flag)
WordChars == Digits \cup Lower \cup Upper \cup {"_"}

\* what str.strip() removes
Whitespace == {" ", "\t", "\n", "\r"}

DigitVal(c) ==
    CASE c = "0" -> 0 [] c = "1" -> 1 [] c = "2" -> 2 [] c = "3" -> 3
      [] c = "4" -> 4 [] c = "5" -> 5 [] c = "6" -> 6 [] c = "7" -> 7
      [] c = "8" -> 8 [] c = "9" -> 9

\* TRUE iff the characters of lit stand in s from position p on
LitAt(s, p, lit) ==
    /\ p >= 1
    /\ p + Len(lit) - 1 <= Len(s)
    /\ \A k \in 1..Len(lit) : s[p + k - 1] = lit[k]

\* the number of consecutive characters of class cls in s from position p on
RunLen(s, p, cls) ==
    IF p < 1 \/ p > Len(s) THEN 0
    ELSE LET ends == {k \in 0..(Len(s) - p + 1) :
                        /\ \A i \in 0..(k - 1) : s[p + i] \in cls
                        /\ (p + k > Len(s) \/ s[p + k] \notin cls)}
         IN  CHOOSE k \in ends : TRUE

\* the decimal value of a sequence of digits
RECURSIVE DecVal(_)
DecVal(ds) ==
    IF ds = << >> THEN 0
    ELSE 10 * DecVal(SubSeq(ds, 1, Len(ds) - 1)) + DigitVal(ds[Len(ds)])

\* file.readline(): the characters up to and including the first newline
readline(s) ==
    LET nl == {i \in 1..Len(s) : s[i] = "\n"}
    IN  IF nl = {} THEN s
        ELSE SubSeq(s, 1, CHOOSE i \in nl : \A j \in nl : i <= j)

\* str.strip(): leading and trailing whitespace removed
strip(s) ==
    LET keep == {i \in 1..Len(s) : s[i] \notin Whitespace}
    IN  IF keep = {} THEN << >>
        ELSE SubSeq(s, CHOOSE i \in keep : \A j \in keep : i <= j,
                       CHOOSE i \in keep : \A j \in keep : i >= j)

(***************************************************************************)
(* Outcomes of a call: a returned value or a raised exception.             *)
(***************************************************************************)
Return(v) == [kind |-> "return", val |-> v]

Raise(e) == [kind |-> "raise", val |-> e]

\* no outcome yet
Pending == [kind |-> "none", val |-> "none"]

(***************************************************************************)
(* GitRepository._parse_origin, API_URL and URL.                           *)
(***************************************************************************)
\* the literal parts of REGEXP
RE_GIT == <<"g", "i", "t", "@">>

RE_HTTPS == <<"h", "t", "t", "p", "s", ":", "/", "/">>

RE_GITHUB == <<"g", "i", "t", "h", "u", "b">>

RE_COM == <<"c", "o", "m">>

RE_GIT_SUFFIX == <<"g", "i", "t">>

\* re.match(REGEXP, s) with
\*   REGEXP = "(git@|https://)github\.com(:|/)(?P<username>\w+)/(?P<repository>\w+).git"
\* The match is anchored at the start of s only.  "\." is a literal dot, the
\* "." before "git" is any character but a newline.  \w+ is greedy: username is
\* the whole run of word characters (it must be followed by "/", which is no
\* word character), repository is the longest prefix of its run that is
\* followed by one character and "git".
re_match(s) ==
    LET p1 == IF LitAt(s, 1, RE_GIT) THEN 1 + Len(RE_GIT)
              ELSE IF LitAt(s, 1, RE_HTTPS) THEN 1 + Len(RE_HTTPS)
              ELSE 0
        hostOK == /\ p1 > 0
                  /\ LitAt(s, p1, RE_GITHUB)
                  /\ LitAt(s, p1 + 6, <<".">>)
                  /\ LitAt(s, p1 + 7, RE_COM)
        p2 == p1 + 10
        sepOK == hostOK /\ p2 <= Len(s) /\ s[p2] \in {":", "/"}
        p3 == p2 + 1
        n1 == RunLen(s, p3, WordChars)
        userOK == sepOK /\ n1 >= 1 /\ LitAt(s, p3 + n1, <<"/">>)
        p4 == p3 + n1 + 1
        n2 == RunLen(s, p4, WordChars)
        cands == {k \in 1..n2 : /\ p4 + k <= Len(s)
                                /\ s[p4 + k] # "\n"
                                /\ LitAt(s, p4 + k + 1, RE_GIT_SUFFIX)}
    IN  IF userOK /\ cands # {}
        THEN [matched |-> TRUE,
              username |-> SubSeq(s, p3, p3 + n1 - 1),
              repository |-> SubSeq(s, p4,
                  p4 + (CHOOSE k \in cands : \A j \in cands : k >= j) - 1)]
        ELSE [matched |-> FALSE, username |-> << >>, repository |-> << >>]

\* _parse_origin: match is None when the origin does not match, and
\* match.group then raises AttributeError
_parse_origin(origin) ==
    LET match == re_match(origin)
    IN  IF match.matched
        THEN Return(<<match.username, match.repository>>)
        ELSE Raise("AttributeError")

API_URL_HEAD == <<"h", "t", "t", "p", "s", ":", "/", "/", "a", "p", "i", ".", "g", "i", "t", "h", "u", "b", ".", "c", "o", "m", "/", "r", "e", "p", "o", "s", "/">>

API_URL_TAIL == <<"/", "c", "o", "m", "m", "i", "t", "s", "?", "p", "a", "g", "e", "=", "1", "&", "p", "e", "r", "_", "p", "a", "g", "e", "=", "1">>

URL_HEAD == <<"h", "t", "t", "p", "s", ":", "/", "/", "g", "i", "t", "h", "u", "b", ".", "c", "o", "m", "/">>

\* API_URL: URL.format(*self._parse_origin())
API_URL(origin) ==
    LET p == _parse_origin(origin)
    IN  IF p.kind = "raise" THEN p
        ELSE Return(API_URL_HEAD \o p.val[1] \o <<"/">> \o p.val[2] \o API_URL_TAIL)

\* URL: URL.format(*self._parse_origin())
URL(origin) ==
    LET p == _parse_origin(origin)
    IN  IF p.kind = "raise" THEN p
        ELSE Return(URL_HEAD \o p.val[1] \o <<"/">> \o p.val[2])


(***************************************************************************)
(* time.strptime(date_str, "%Y-%m-%dT%H:%M:%SZ") and calendar.timegm.      *)
(***************************************************************************)
isleap(y) == (y % 4 = 0) /\ ((y % 100 # 0) \/ (y % 400 = 0))

mdays(y, m) ==
    CASE m \in {1, 3, 5, 7, 8, 10, 12} -> 31
      [] m \in {4, 6, 9, 11} -> 30
      [] m = 2 -> IF isleap(y) THEN 29 ELSE 28

\* the days of year y before the first of month m
RECURSIVE days_before_month(_, _)
days_before_month(y, m) ==
    IF m <= 1 THEN 0 ELSE days_before_month(y, m - 1) + mdays(y, m - 1)

\* the days before January 1st of year y, counted from 0001-01-01
days_before_year(y) ==
    LET p == y - 1
    IN  p * 365 + (p \div 4) - (p \div 100) + (p \div 400)

\* datetime.date(y, m, d).toordinal()
toordinal(y, m, d) == days_before_year(y) + days_before_month(y, m) + d

\* datetime.date(1970, 1, 1).toordinal()
EPOCH_ORD == toordinal(1970, 1, 1)

\* one %m, %d, %H, %M or %S directive at position p of s: one or two digits
\* whose value lies in lo..hi (for %d, spaceOK, also a space and a digit 1-9);
\* n is the number of characters taken, 0 when the directive does not match.
\* The literal that follows every directive is no digit, so the alternation
\* of the directive's pattern can only take the whole run of digits.
Directive(s, p, lo, hi, spaceOK) ==
    LET n == RunLen(s, p, Digits)
        v == DecVal(SubSeq(s, p, p + n - 1))
    IN  IF n \in {1, 2} /\ v >= lo /\ v <= hi THEN [n |-> n, v |-> v]
        ELSE IF /\ spaceOK
                /\ LitAt(s, p, <<" ">>)
                /\ p + 1 <= Len(s)
                /\ s[p + 1] \in Digits \ {"0"}
                /\ RunLen(s, p + 1, Digits) = 1
             THEN [n |-> 2, v |-> DigitVal(s[p + 1])]
        ELSE [n |-> 0, v |-> 0]

\* a literal character of the format; the pattern is compiled with IGNORECASE
FmtLit(s, p, chars) == p >= 1 /\ p <= Len(s) /\ s[p] \in chars

\* time.strptime(s, "%Y-%m-%dT%H:%M:%SZ"): the six fields, or ValueError when
\* s does not match the format, text remains after it, or the day is not a
\* day of the month
strptime(s) ==
    LET yOK == RunLen(s, 1, Digits) >= 4
        Y   == DecVal(SubSeq(s, 1, 4))
        m   == Directive(s, 6, 1, 12, FALSE)
        pd  == 6 + m.n + 1
        d   == Directive(s, pd, 1, 31, TRUE)
        pH  == pd + d.n + 1
        H   == Directive(s, pH, 0, 23, FALSE)
        pM  == pH + H.n + 1
        M   == Directive(s, pM, 0, 59, FALSE)
        pS  == pM + M.n + 1
        S   == Directive(s, pS, 0, 61, FALSE)
        pZ  == pS + S.n
        ok  == /\ yOK
               /\ FmtLit(s, 5, {"-"}) /\ m.n > 0
               /\ FmtLit(s, pd - 1, {"-"}) /\ d.n > 0
               /\ FmtLit(s, pH - 1, {"T", "t"}) /\ H.n > 0
               /\ FmtLit(s, pM - 1, {":"}) /\ M.n > 0
               /\ FmtLit(s, pS - 1, {":"}) /\ S.n > 0
               /\ FmtLit(s, pZ, {"Z", "z"})
               /\ Len(s) = pZ
               /\ Y >= 1
               /\ d.v <= mdays(Y, m.v)
    IN  IF ok THEN Return(<<Y, m.v, d.v, H.v, M.v, S.v>>)
        ELSE Raise("ValueError")

\* calendar.timegm(tuple)
timegm(tm) ==
    LET days == toordinal(tm[1], tm[2], 1) - EPOCH_ORD + tm[3] - 1
    IN  ((days * 24 + tm[4]) * 60 + tm[5]) * 60 + tm[6]

(***************************************************************************)
(* json.dump and json.load on the cache file's text.  The cached value is  *)
(* (short_hash, date_): a string and an integer.                           *)
(***************************************************************************)
DigitChar(d) ==
    CASE d = 0 -> "0" [] d = 1 -> "1" [] d = 2 -> "2" [] d = 3 -> "3"
      [] d = 4 -> "4" [] d = 5 -> "5" [] d = 6 -> "6" [] d = 7 -> "7"
      [] d = 8 -> "8" [] d = 9 -> "9"

\* str(n) for n >= 0
RECURSIVE NatChars(_)
NatChars(n) ==
    IF n < 10 THEN <<DigitChar(n)>>
    ELSE NatChars(n \div 10) \o <<DigitChar(n % 10)>>

\* str(n)
IntChars(n) == IF n < 0 THEN <<"-">> \o NatChars(0 - n) ELSE NatChars(n)

\* the encoder of a string without characters to escape
encode_basestring(s) == <<"\"">> \o s \o <<"\"">>

\* JSONEncoder.iterencode((s, n)): the chunks json.dump hands to fd.write
json_chunks(args) ==
    << <<"[">> \o encode_basestring(args[1]),
       <<",", " ">> \o IntChars(args[2]),
       <<"]">> >>

\* the concatenation of the first k chunks
RECURSIVE JoinChunks(_, _)
JoinChunks(chunks, k) ==
    IF k = 0 THEN << >>
    ELSE JoinChunks(chunks, k - 1) \o chunks[k]

\* the text of a complete json.dump(args, fd)
json_dumps(args) == JoinChunks(json_chunks(args), 3)

\* the position after the whitespace that starts at p
SkipWs(s, p) == p + RunLen(s, p, Whitespace)

\* json.load: the text must be one array of a string and an integer, with
\* nothing but whitespace after it; anything else (an empty file, a text cut
\* short, two arrays one after the other) is a ValueError.  These are the only
\* texts a cache file written by json.dump((short_hash, date_), fd) can hold.
json_load(s) ==
    LET p0  == SkipWs(s, 1)
        p1  == SkipWs(s, p0 + 1)
        \* the string: from the quote at p1 to the next quote
        n   == RunLen(s, p1 + 1, (WordChars \cup Whitespace \cup
                                  {".", "-", ":", "/", "@", ",", "[", "]"}))
        q   == p1 + 1 + n
        p2  == SkipWs(s, q + 1)
        p3  == SkipWs(s, p2 + 1)
        neg == LitAt(s, p3, <<"-">>)
        pn  == IF neg THEN p3 + 1 ELSE p3
        nd  == RunLen(s, pn, Digits)
        v   == DecVal(SubSeq(s, pn, pn + nd - 1))
        p4  == SkipWs(s, pn + nd)
        p5  == SkipWs(s, p4 + 1)
        ok  == /\ LitAt(s, p0, <<"[">>)
               /\ LitAt(s, p1, <<"\"">>)
               /\ LitAt(s, q, <<"\"">>)
               /\ LitAt(s, p2, <<",">>)
               /\ nd >= 1
               /\ LitAt(s, p4, <<"]">>)
               /\ p5 = Len(s) + 1
    IN  IF ok THEN Return(<<SubSeq(s, p1 + 1, q - 1), IF neg THEN 0 - v ELSE v>>)
        ELSE Raise("ValueError")

(***************************************************************************)
(* The cache file as the file system holds it, and FileCache.               *)
(*   kind  "absent": no such file; "file": a regular file;                  *)
(*         "denied": the path cannot be reached (stat and open fail)        *)
(*   mtime its modification time; data its text                             *)
(***************************************************************************)
NoFile == [kind |-> "absent", mtime |-> 0, data |-> << >>]

Denied == [kind |-> "denied", mtime |-> 0, data |-> << >>]

\* a variant of getmtime: the time of the file is not looked at
getmtime_epoch(f) ==
    IF f.kind = "file" THEN Return(0) ELSE Raise("OSError")

\* os.path.getmtime(self.path)
getmtime(f) ==
    IF f.kind = "file" THEN Return(f.mtime) ELSE Raise("OSError")

\* a variant of max_seconds: the hours are taken for minutes
max_seconds_minutes(max_hours) == max_hours * 60

\* max_seconds = max_hours * 3600
max_seconds(max_hours) == max_hours * SecondsPerHour

\* a variant of not_expired: an age equal to the limit is expired
not_expired_strict(now, cache_mtime, max_secs) == (now - cache_mtime) < max_secs

\* (time.time() - cache_mtime) <= (max_seconds)
not_expired(now, cache_mtime, max_secs) == (now - cache_mtime) <= max_secs

\* the try block of up_to_date turned to an outcome by its except clause:
\* an OSError of getmtime becomes the returned value False
except_OSError(m, now, max_hours) ==
    IF m.kind = "raise" THEN Return(FALSE)
    ELSE Return(not_expired(now, m.val, max_seconds(max_hours)))

\* FileCache.up_to_date(max_hours), evaluated at time now
up_to_date(f, max_hours, now) == except_OSError(getmtime(f), now, max_hours)

\* a variant of open_wt: the file is opened in mode 'at' and keeps its text
open_at(f, now) == [kind |-> "file", mtime |-> now, data |-> f.data]

\* open(self.path, 'wt') succeeding at time now: the file is created or
\* truncated, whatever it held before
open_wt(f, now) == [kind |-> "file", mtime |-> now, data |-> << >>]

\* write(2) of text through a descriptor whose offset is 0, as it is after
\* open(path, 'wt'): the text replaces the start of the file, and what the
\* file holds beyond it (written through another descriptor since the open)
\* stays
pwrite0(old, text) == text \o SubSeq(old, Len(text) + 1, Len(old))

\* fd.write(chunk) for the first k chunks of json.dump, then close, at time
\* now: the chunks gather in the buffer of fd and reach the file in one write
write_chunks(f, args, k, now) ==
    [kind |-> "file", mtime |-> now,
     data |-> pwrite0(f.data, JoinChunks(json_chunks(args), k))]

\* FileCache.get(): open(self.path, 'rt') and json.load(fd)
get(f) == IF f.kind = "file" THEN json_load(f.data) ELSE Raise("IOError")

(***************************************************************************)
(* The world outside the program: directories, the git command, the        *)
(* GitHub API, the clock.                                                  *)
(***************************************************************************)
\* the directory the process starts in
Home == "/home/user"

RepoA == "/src/repoA"

RepoB == "/src/repoB"

Repos == {RepoA, RepoB}

Threads == {1, 2}

\* the seconds the clock may advance by in one step
Deltas == {1, SecondsPerHour}

\* cache_path: os.path.join(self.path, self.CACHE_FILE_FILENAME)
cache_path(path) == <<path, CACHE_FILE_FILENAME>>

CachePaths == {cache_path(p) : p \in Repos}

SHA1 == <<"5", "1", "2", "7", "7", "f", "c", "a", "b", "c">>

SHA2 == <<"9", "e", "0", "d", "1", "a", "f", "d", "d", "2">>

DATE1 == <<"2", "0", "1", "4", "-", "1", "0", "-", "2", "3", "T", "1", "2", ":", "1", "8", ":", "1", "3", "Z">>

DATE2 == <<"1", "9", "7", "0", "-", "0", "1", "-", "0", "1", "T", "0", "0", ":", "0", "0", ":", "0", "0", "Z">>

\* a date with fractional seconds
DATE_FRACTION == <<"2", "0", "1", "4", "-", "1", "0", "-", "2", "3", "T", "1", "2", ":", "1", "8", ":", "1", "3", ".", "5", "Z">>

ORIGIN_HTTPS == <<"h", "t", "t", "p", "s", ":", "/", "/", "g", "i", "t", "h", "u", "b", ".", "c", "o", "m", "/", "k", "e", "n", "n", "e", "t", "h", "r", "e", "i", "t", "z", "/", "r", "e", "q", "u", "e", "s", "t", "s", ".", "g", "i", "t">>

ORIGIN_GITLAB == <<"h", "t", "t", "p", "s", ":", "/", "/", "g", "i", "t", "l", "a", "b", ".", "c", "o", "m", "/", "x", "/", "y", ".", "g", "i", "t">>

DESCRIBE_OUT == <<"v", "0", ".", "1", "-", "3", "-", "g", "5", "1", "2", "7", "7", "f", "c", "-", "d", "i", "r", "t", "y">>

\* the responses of the GitHub API to requests.get.  status is "ok" or the
\* exception requests.get raises; body is "nonjson", "object" (a JSON object,
\* as GitHub answers an error) or "array", whose first entries are listed
\* with the keys they have.
Entry(has_sha, sha, has_date, date) ==
    [has_sha |-> has_sha, sha |-> sha, has_date |-> has_date, date |-> date]

Response(status, body, entries) ==
    [status |-> status, body |-> body, entries |-> entries]

NoResponse == Response("none", "none", << >>)

GoodResponses ==
    {Response("ok", "array", <<Entry(TRUE, SHA1, TRUE, DATE1)>>),
     Response("ok", "array", <<Entry(TRUE, SHA2, TRUE, DATE2)>>)}

BadResponses ==
    {Response("ConnectionError", "none", << >>),
     Response("Timeout", "none", << >>),
     Response("ok", "nonjson", << >>),
     Response("ok", "object", << >>),
     Response("ok", "array", << >>),
     Response("ok", "array", <<Entry(FALSE, << >>, TRUE, DATE1)>>),
     Response("ok", "array", <<Entry(TRUE, SHA1, FALSE, << >>)>>),
     Response("ok", "array", <<Entry(TRUE, SHA1, TRUE, DATE_FRACTION)>>)}

Responses == GoodResponses \cup BadResponses

\* the pairs FileCache.set is called with directly
SetArgs == {<<SubSeq(SHA1, 1, 7), 1414066693>>, <<SubSeq(SHA2, 1, 7), 0>>}

\* what the git command prints when it exits with status 0, run in directory
\* dir with the configuration cfg (cfg[d] is remote.origin.url of repository d)
git_stdout(args, hash, dir, cfg) ==
    CASE args = "describe"  -> DESCRIBE_OUT \o <<"\n">>
      [] args = "config"    -> cfg[dir] \o <<"\n">>
      [] args = "rev-parse" -> SubSeq(hash, 1, 7) \o <<"\n">>

\* whether git can exit with status 0: the directory is a repository, and
\* "config --get" finds the key
git_can_succeed(args, dir, cfg) ==
    /\ dir \in Repos
    /\ (args = "config" => cfg[dir] # << >>)

(***************************************************************************)
(* State.                                                                  *)
(*   clock   time.time()                                                   *)
(*   ticks   how many times the clock advanced (bounded by MaxTicks)       *)
(*   cwd     the working directory of the process, shared by its threads   *)
(*   fs      the cache files: fs[cache_path(p)] for every repository p     *)
(*   gitcfg  remote.origin.url of every repository (<< >>: not set)        *)
(*   th      per thread: the call it runs, its position and its locals;    *)
(*           now and f0 are the clock and the cache file as up_to_date     *)
(*           read them, log the steps of the call so far, cwd0 the         *)
(*           working directory when the call began, http_at the clock at   *)
(*           its HTTP request, overlap whether another thread's call ran   *)
(*           at some time during this call                                 *)
(*   hist    per cache file, what the last FileCache.set did (history):    *)
(*           ok whether it completed, at when, args its pair, before the   *)
(*           text it replaced; ever whether any set completed, http_at     *)
(*           the time of the request of the call that wrote, hit whether   *)
(*           get_last_github_commit has returned its pair from the cache   *)
(*   tz      the local time zone of the process, in seconds east of UTC    *)
(***************************************************************************)
VARIABLES clock, ticks, cwd, fs, gitcfg, th, hist, tz

vars == <<clock, ticks, cwd, fs, gitcfg, th, hist, tz>>

\* a thread that runs no call
IdleTh ==
    [pc |-> "idle", op |-> "none", path |-> Home, max_hours |-> 0,
     args |-> << << >>, 0 >>, cwd_saved |-> Home, git_args |-> "none",
     co |-> Pending, origin |-> << >>, url |-> << >>, r |-> NoResponse,
     hash_ |-> << >>, date_str |-> << >>, date_ |-> 0, short_hash |-> << >>,
     now |-> 0, f0 |-> NoFile, result |-> Pending, log |-> << >>,
     cwd0 |-> Home, http_at |-> 0, overlap |-> FALSE]

NoHist ==
    [ok |-> FALSE, at |-> 0, args |-> << << >>, 0 >>, before |-> << >>,
     ever |-> FALSE, http_at |-> 0, hit |-> FALSE]

\* an event of a call's log: what was done, and the working directory then
Ev(name) == [ev |-> name, dir |-> cwd]

\* thread t's call ends with outcome res
Done(t, res) == [th[t] EXCEPT !.pc = "done", !.result = res]

(***************************************************************************)
(* Calls: the entry points of FileCache and GitRepository.                 *)
(***************************************************************************)
Started(op, path) ==
    [IdleTh EXCEPT !.op = op, !.path = path, !.cwd0 = cwd]

\* thread u is inside a call
Busy(u) == th[u].pc \notin {"idle", "done"}

\* thread t begins the call rec: it overlaps the calls the other threads are
\* in, and they overlap it
Begin(t, rec) ==
    LET others == \E u \in Threads \ {t} : Busy(u)
    IN  [u \in Threads |->
           IF u = t THEN [rec EXCEPT !.overlap = others]
           ELSE IF Busy(u) THEN [th[u] EXCEPT !.overlap = TRUE]
           ELSE th[u]]

\* GitRepository(path).get_last_github_commit(max_hours = max_hours): line 203
\* builds the FileCache, line 204 asks it
Call_get_last_github_commit(t, path, max_hours) ==
    /\ th[t].pc = "idle"
    /\ th' = Begin(t, [Started("get_last_github_commit", path)
                  EXCEPT !.pc = "up_to_date", !.max_hours = max_hours])
    /\ UNCHANGED <<tz, clock, ticks, cwd, fs, gitcfg, hist>>

\* FileCache(cache_path).up_to_date(max_hours)
Call_up_to_date(t, path, max_hours) ==
    /\ th[t].pc = "idle"
    /\ th' = Begin(t, [Started("up_to_date", path)
                  EXCEPT !.pc = "up_to_date", !.max_hours = max_hours])
    /\ UNCHANGED <<tz, clock, ticks, cwd, fs, gitcfg, hist>>

\* FileCache(cache_path).set(*args)
Call_set(t, path, args) ==
    /\ th[t].pc = "idle"
    /\ th' = Begin(t, [Started("set", path)
                  EXCEPT !.pc = "set_open", !.args = args])
    /\ UNCHANGED <<tz, clock, ticks, cwd, fs, gitcfg, hist>>

\* FileCache(cache_path).get()
Call_get(t, path) ==
    /\ th[t].pc = "idle"
    /\ th' = Begin(t, [Started("get", path) EXCEPT !.pc = "get"])
    /\ UNCHANGED <<tz, clock, ticks, cwd, fs, gitcfg, hist>>

\* the git command a property of GitRepository runs through check_output
property_args(op) == IF op = "revision" THEN "describe" ELSE "config"

\* the properties revision, origin, API_URL and URL, and _parse_origin
Call_property(t, path, op) ==
    /\ th[t].pc = "idle"
    /\ th' = Begin(t, [Started(op, path)
                  EXCEPT !.pc = "getcwd", !.git_args = property_args(op)])
    /\ UNCHANGED <<tz, clock, ticks, cwd, fs, gitcfg, hist>>

(***************************************************************************)
(* FileCache.up_to_date and FileCache.get as steps of a call.              *)
(***************************************************************************)
\* a variant of return_cache_get: a failed read is taken for a cache miss
return_cache_get_fallback(g) == IF g.kind = "raise" THEN "miss" ELSE "done"

\* line 205, "return cache.get()": where the call goes with get's outcome g
return_cache_get(g) == "done"

\* lines 55-60; in get_last_github_commit, line 204 branches on the answer:
\* to line 205 when it is True, to the query of line 215 otherwise, which
\* first evaluates self.API_URL and so runs "git config" through check_output
step_up_to_date(t) ==
    /\ th[t].pc = "up_to_date"
    /\ LET u == up_to_date(fs[cache_path(th[t].path)], th[t].max_hours, clock)
           me == [th[t] EXCEPT !.now = clock,
                               !.f0 = fs[cache_path(th[t].path)]]
       IN  th' = [th EXCEPT ![t] =
                IF u.kind = "raise" \/ th[t].op = "up_to_date"
                THEN [me EXCEPT !.pc = "done", !.result = u]
                ELSE IF u.val
                THEN [me EXCEPT !.pc = "get",
                                !.log = Append(@, Ev("hit"))]
                ELSE [me EXCEPT !.pc = "getcwd", !.git_args = "config",
                                !.log = Append(@, Ev("miss"))]]
    /\ UNCHANGED <<tz, clock, ticks, cwd, fs, gitcfg, hist>>

\* a variant of step_get: the read renews the modification time of the file
step_get_touch(t) ==
    /\ th[t].pc = "get"
    /\ LET cp == cache_path(th[t].path)
           g == get(fs[cp])
       IN  /\ th' = [th EXCEPT ![t] =
                    [@ EXCEPT !.pc = "done", !.result = g, !.log = Append(@,
                       Ev(IF g.kind = "raise" THEN "get_failed" ELSE "get"))]]
           /\ fs' = [fs EXCEPT ![cp] =
                    IF @.kind = "file" THEN [@ EXCEPT !.mtime = clock] ELSE @]
           /\ hist' = [hist EXCEPT ![cp].hit =
                    @ \/ (th[t].op = "get_last_github_commit"
                            /\ g.kind = "return")]
    /\ UNCHANGED <<tz, clock, ticks, cwd, gitcfg>>

\* lines 68-72: the file is opened 'rt' and read, which leaves its text and
\* its modification time
step_get(t) ==
    /\ th[t].pc = "get"
    /\ LET cp == cache_path(th[t].path)
           g == get(fs[cp])
           me == [th[t] EXCEPT !.result = g, !.log = Append(@,
                      Ev(IF g.kind = "raise" THEN "get_failed" ELSE "get"))]
       IN  /\ th' = [th EXCEPT ![t] =
                IF return_cache_get(g) = "done"
                THEN [me EXCEPT !.pc = "done"]
                ELSE [me EXCEPT !.pc = "getcwd", !.git_args = "config",
                                !.result = Pending]]
           /\ hist' = [hist EXCEPT ![cp].hit =
                    @ \/ (th[t].op = "get_last_github_commit"
                            /\ g.kind = "return")]
    /\ UNCHANGED <<tz, clock, ticks, cwd, fs, gitcfg>>

(***************************************************************************)
(* tmp_chdir and GitRepository.check_output.                               *)
(***************************************************************************)
\* a variant of tmp_chdir_exit: without try/finally, os.chdir(cwd) is skipped
\* when the block raises
tmp_chdir_exit_no_finally(cwd_saved, cwd_now, raised) ==
    IF raised THEN cwd_now ELSE cwd_saved

\* tmp_chdir, line 32: the finally clause runs os.chdir(cwd) on every way out
\* of the block, raised or not; the value is the working directory after it
tmp_chdir_exit(cwd_saved, cwd_now, raised) == cwd_saved

\* line 27: cwd = os.getcwd()
co_getcwd(t) ==
    /\ th[t].pc = "getcwd"
    /\ th' = [th EXCEPT ![t].cwd_saved = cwd, ![t].pc = "chdir"]
    /\ UNCHANGED <<tz, clock, ticks, cwd, fs, gitcfg, hist>>

\* a variant of co_chdir: the working directory is not changed
co_chdir_skip(t) ==
    /\ th[t].pc = "chdir"
    /\ th' = [th EXCEPT ![t].pc = "check_call"]
    /\ UNCHANGED <<tz, clock, ticks, cwd, fs, gitcfg, hist>>

\* line 29: os.chdir(path), which fails with OSError when the directory
\* cannot be entered
co_chdir(t) ==
    /\ th[t].pc = "chdir"
    /\ \E ok \in BOOLEAN :
         IF ok
         THEN /\ cwd' = th[t].path
              /\ th' = [th EXCEPT ![t].pc = "check_call"]
         ELSE /\ cwd' = cwd
              /\ th' = [th EXCEPT ![t].pc = "finally",
                                  ![t].co = Raise("OSError")]
    /\ UNCHANGED <<tz, clock, ticks, fs, gitcfg, hist>>

\* lines 92-95: the temporary file, the command, the first line of its
\* output.  io is "ok", "tmpfile" (TemporaryFile() raises, the command does
\* not run) or "read" (seek or readline raises); status0 is whether the
\* command exits with status 0.
co_check_call(t) ==
    /\ th[t].pc = "check_call"
    /\ \E io \in {"ok", "tmpfile", "read"}, status0 \in BOOLEAN :
         /\ status0 => git_can_succeed(th[t].git_args, cwd, gitcfg)
         /\ th' = [th EXCEPT ![t] =
              IF io = "tmpfile"
              THEN [@ EXCEPT !.pc = "finally", !.co = Raise("IOError")]
              ELSE [@ EXCEPT
                     !.pc = "finally",
                     !.log = Append(@, Ev(th[t].git_args)),
                     !.co = IF ~status0 THEN Raise("CalledProcessError")
                            ELSE IF io = "read" THEN Raise("IOError")
                            ELSE Return(strip(readline(
                                   git_stdout(th[t].git_args, th[t].hash_,
                                              cwd, gitcfg))))]]
    /\ UNCHANGED <<tz, clock, ticks, cwd, fs, gitcfg, hist>>

\* a variant of t_tuple: the full hash is cached and returned
t_tuple_full_hash(hash_, short_hash, date_) == <<hash_, date_>>

\* line 230: t = short_hash, date_
t_tuple(hash_, short_hash, date_) == <<short_hash, date_>>

\* line 32, and the return to check_output's caller: an exception ends the
\* call; the value of "git config" is self.origin (line 140), the value of
\* "git rev-parse" is short_hash (line 229), followed by cache.set(*t)
co_finally(t) ==
    /\ th[t].pc = "finally"
    /\ cwd' = tmp_chdir_exit(th[t].cwd_saved, cwd, th[t].co.kind = "raise")
    /\ LET me == th[t]
           co == me.co
       IN  th' = [th EXCEPT ![t] =
             IF co.kind = "raise" \/ me.op \in {"revision", "origin"}
             THEN [me EXCEPT !.pc = "done", !.result = co]
             ELSE IF me.git_args = "config"
             THEN [me EXCEPT !.pc = "parse_origin", !.origin = co.val]
             ELSE [me EXCEPT !.pc = "set_open", !.short_hash = co.val,
                             !.args = t_tuple(me.hash_, co.val, me.date_)]]
    /\ UNCHANGED <<tz, clock, ticks, fs, gitcfg, hist>>

(***************************************************************************)
(* The rest of GitRepository.get_last_github_commit, and API_URL and URL.  *)
(***************************************************************************)
\* lines 154-157, 169 and 176; in get_last_github_commit, the argument of
\* line 215
step_parse_origin(t) ==
    /\ th[t].pc = "parse_origin"
    /\ LET u == CASE th[t].op = "URL" -> URL(th[t].origin)
                  [] th[t].op = "_parse_origin" -> _parse_origin(th[t].origin)
                  [] OTHER -> API_URL(th[t].origin)
       IN  th' = [th EXCEPT ![t] =
             IF \/ u.kind = "raise"
                \/ th[t].op \in {"URL", "API_URL", "_parse_origin"}
             THEN [@ EXCEPT !.pc = "done", !.result = u]
             ELSE [@ EXCEPT !.pc = "requests_get", !.url = u.val]]
    /\ UNCHANGED <<tz, clock, ticks, cwd, fs, gitcfg, hist>>

\* a variant of requests_get: a request that raises is made again
requests_get_retry(t) ==
    /\ th[t].pc = "requests_get"
    /\ \E resp \in Responses :
         th' = [th EXCEPT ![t] =
             IF resp.status # "ok"
             THEN [@ EXCEPT !.r = resp, !.http_at = clock,
                            !.log = Append(@, Ev("http"))]
             ELSE [@ EXCEPT !.pc = "json", !.r = resp, !.http_at = clock,
                            !.log = Append(@, Ev("http"))]]
    /\ UNCHANGED <<tz, clock, ticks, cwd, fs, gitcfg, hist>>

\* a variant of requests_get: the cache file is opened for writing before
\* the request is sent
requests_get_open_first(t) ==
    /\ th[t].pc = "requests_get"
    /\ fs' = [fs EXCEPT ![cache_path(th[t].path)] = open_wt(@, clock)]
    /\ \E resp \in Responses :
         th' = [th EXCEPT ![t] =
             IF resp.status # "ok"
             THEN [@ EXCEPT !.pc = "done", !.result = Raise(resp.status),
                            !.r = resp, !.http_at = clock,
                            !.log = Append(@, Ev("http"))]
             ELSE [@ EXCEPT !.pc = "json", !.r = resp, !.http_at = clock,
                            !.log = Append(@, Ev("http"))]]
    /\ UNCHANGED <<tz, clock, ticks, cwd, gitcfg, hist>>

\* line 215: r = requests.get(self.API_URL, **kwargs), one request
requests_get(t) ==
    /\ th[t].pc = "requests_get"
    /\ \E resp \in Responses :
         th' = [th EXCEPT ![t] =
             IF resp.status # "ok"
             THEN [@ EXCEPT !.pc = "done", !.result = Raise(resp.status),
                            !.r = resp, !.http_at = clock,
                            !.log = Append(@, Ev("http"))]
             ELSE [@ EXCEPT !.pc = "json", !.r = resp, !.http_at = clock,
                            !.log = Append(@, Ev("http"))]]
    /\ UNCHANGED <<tz, clock, ticks, cwd, fs, gitcfg, hist>>

\* lines 216-218: r.json()[0], its 'sha' and its ['commit']['author']['date']
json_first_commit(r) ==
    IF r.body = "nonjson" THEN Raise("ValueError")
    ELSE IF r.body = "object" THEN Raise("KeyError")
    ELSE IF Len(r.entries) = 0 THEN Raise("IndexError")
    ELSE IF ~r.entries[1].has_sha \/ ~r.entries[1].has_date
         THEN Raise("KeyError")
    ELSE Return(<<r.entries[1].sha, r.entries[1].date>>)

step_json(t) ==
    /\ th[t].pc = "json"
    /\ LET c == json_first_commit(th[t].r)
       IN  th' = [th EXCEPT ![t] =
             IF c.kind = "raise"
             THEN [@ EXCEPT !.pc = "done", !.result = c,
                            !.log = Append(@, Ev("json"))]
             ELSE [@ EXCEPT !.pc = "strptime", !.hash_ = c.val[1],
                            !.date_str = c.val[2],
                            !.log = Append(@, Ev("json"))]]
    /\ UNCHANGED <<tz, clock, ticks, cwd, fs, gitcfg, hist>>

\* a variant of date_seconds: time.mktime, which takes the fields for local
\* time
date_seconds_mktime(date_struct) == timegm(date_struct) - tz

\* line 226: date_ = calendar.timegm(date_struct), which takes the fields for
\* UTC and does not read the time zone of the process
date_seconds(date_struct) == timegm(date_struct)

\* lines 224-228: the conversion of the date, then check_output of
\* ['git', 'rev-parse', '--short', hash_]
step_strptime(t) ==
    /\ th[t].pc = "strptime"
    /\ LET tm == strptime(th[t].date_str)
       IN  th' = [th EXCEPT ![t] =
             IF tm.kind = "raise"
             THEN [@ EXCEPT !.pc = "done", !.result = tm,
                            !.log = Append(@, Ev("timegm"))]
             ELSE [@ EXCEPT !.pc = "getcwd", !.git_args = "rev-parse",
                            !.date_ = date_seconds(tm.val),
                            !.log = Append(@, Ev("timegm"))]]
    /\ UNCHANGED <<tz, clock, ticks, cwd, fs, gitcfg, hist>>

(***************************************************************************)
(* FileCache.set as steps of a call.                                       *)
(***************************************************************************)
\* line 65: open(self.path, 'wt'), which fails with IOError when the file
\* cannot be opened for writing and leaves it as it was
set_open(t) ==
    /\ th[t].pc = "set_open"
    /\ LET cp == cache_path(th[t].path)
       IN  \E ok \in BOOLEAN :
             /\ ok => fs[cp].kind # "denied"
             /\ IF ok
                THEN /\ fs' = [fs EXCEPT ![cp] = open_wt(@, clock)]
                     /\ hist' = [hist EXCEPT ![cp] =
                                   [@ EXCEPT !.ok = FALSE, !.hit = FALSE,
                                             !.before = fs[cp].data]]
                     /\ th' = [th EXCEPT ![t].pc = "set_dump",
                                         ![t].log = Append(@, Ev("open"))]
                ELSE /\ th' = [th EXCEPT ![t] = Done(t, Raise("IOError"))]
                     /\ UNCHANGED <<tz, fs, hist>>
    /\ UNCHANGED <<tz, clock, ticks, cwd, gitcfg>>

\* what a call returns after its cache.set: set itself returns None, line 232
\* of get_last_github_commit returns t
after_set(me) == IF me.op = "set" THEN Return("None") ELSE Return(me.args)

\* line 66 and the end of the with block: json.dump writes its chunks and the
\* file is closed.  k is the number of chunks that reach the file: all three,
\* or fewer when a write fails (IOError), which leaves the text cut short.
set_dump(t) ==
    /\ th[t].pc = "set_dump"
    /\ LET cp == cache_path(th[t].path)
       IN  \E k \in 0..3 :
             /\ fs' = [fs EXCEPT ![cp] =
                         IF k = 0 THEN @
                         ELSE write_chunks(@, th[t].args, k, clock)]
             /\ hist' = [hist EXCEPT ![cp] =
                           IF k = 3
                           THEN [@ EXCEPT !.ok = TRUE, !.at = clock,
                                          !.args = th[t].args,
                                          !.ever = TRUE,
                                          !.http_at = th[t].http_at]
                           ELSE @]
             /\ th' = [th EXCEPT ![t] =
                         [@ EXCEPT !.pc = "done",
                                   !.log = Append(@, Ev("dump")),
                                   !.result = IF k = 3 THEN after_set(th[t])
                                              ELSE Raise("IOError")]]
    /\ UNCHANGED <<tz, clock, ticks, cwd, gitcfg>>

(***************************************************************************)
(* The end of a call, and the clock.                                       *)
(***************************************************************************)
\* the caller takes the outcome; the thread is free for its next call
Finish(t) ==
    /\ th[t].pc = "done"
    /\ th' = [th EXCEPT ![t] = IdleTh]
    /\ UNCHANGED <<tz, clock, ticks, cwd, fs, gitcfg, hist>>

\* the positions whose next step reads the clock: time.time() of
\* up_to_date, and the modification time the file system stamps at open
\* and at write
ReadsClock == {"up_to_date", "set_open", "set_dump"}

\* time passes.  A step that does not read the clock behaves the same
\* whenever it runs, so the advance is taken just before a step that does.
Tick ==
    /\ ticks < MaxTicks
    /\ \E t \in Threads : th[t].pc \in ReadsClock
    /\ \E d \in Deltas : clock' = clock + d
    /\ ticks' = ticks + 1
    /\ UNCHANGED <<tz, cwd, fs, gitcfg, th, hist>>

(***************************************************************************)
(* Specifications.                                                         *)
(***************************************************************************)
\* the arguments max_hours the calls are made with
MaxHours == {-1, 0, 1}

\* a cache file left by an earlier run, written at time 0
OldFile == [kind |-> "file", mtime |-> 0,
            data |-> json_dumps(<<SubSeq(SHA2, 1, 7), 0>>)]

InitCommon ==
    /\ clock = 0
    /\ ticks = 0
    /\ cwd = Home
    /\ th = [t \in Threads |-> IdleTh]
    /\ hist = [cp \in CachePaths |-> NoHist]
    /\ tz = 0

\* one thread, one repository
Init ==
    /\ InitCommon
    /\ \E f \in {NoFile, Denied, OldFile} :
         fs = [cp \in CachePaths |-> IF cp = cache_path(RepoA) THEN f ELSE NoFile]
    /\ \E o \in {ORIGIN_HTTPS, ORIGIN_GITLAB} :
         gitcfg = [d \in Repos |-> o]

Call(t, path) ==
    \/ \E h \in MaxHours : Call_get_last_github_commit(t, path, h)
    \/ \E h \in MaxHours : Call_up_to_date(t, path, h)
    \/ \E a \in SetArgs : Call_set(t, path, a)
    \/ Call_get(t, path)
    \/ Call_property(t, path, "revision")

Step(t) ==
    \/ step_up_to_date(t)
    \/ step_get(t)
    \/ co_getcwd(t)
    \/ co_chdir(t)
    \/ co_check_call(t)
    \/ co_finally(t)
    \/ step_parse_origin(t)
    \/ requests_get(t)
    \/ step_json(t)
    \/ step_strptime(t)
    \/ set_open(t)
    \/ set_dump(t)
    \/ Finish(t)

Next ==
    \/ Call(1, RepoA)
    \/ Step(1)
    \/ Tick

Spec == Init /\ [][Next]_vars

(***************************************************************************)
(* The origin parser on its own: every origin of Origins is the            *)
(* remote.origin.url of the repository, and the calls are origin,          *)
(* _parse_origin, API_URL and URL.                                         *)
(***************************************************************************)
OriginSchemes ==
    {<<"g", "i", "t", "@">>,
     <<"h", "t", "t", "p", "s", ":", "/", "/">>,
     <<"h", "t", "t", "p", ":", "/", "/">>}

OriginHosts ==
    {<<"g", "i", "t", "h", "u", "b", ".", "c", "o", "m">>,
     <<"g", "i", "t", "l", "a", "b", ".", "c", "o", "m">>,
     <<"g", "i", "t", "h", "u", "b", "X", "c", "o", "m">>}

OriginOwners ==
    {<<"v", "t", "e", "r", "r", "o", "n">>,
     <<"a", "-", "b">>}

OriginNames ==
    {<<"l", "e", "m", "o", "n">>,
     <<"r", "e", "p", "o", "_", "g", "i", "t">>,
     <<"m", "y", ".", "r", "e", "p", "o">>}

OriginEnds ==
    {<<".", "g", "i", "t">>,
     <<>>,
     <<".", "g", "i", "t", "/", "x">>,
     <<"X", "g", "i", "t">>}

Origins ==
    {s \o h \o <<sep>> \o o \o <<"/">> \o n \o e :
        s \in OriginSchemes, h \in OriginHosts, sep \in {":", "/"},
        o \in OriginOwners, n \in OriginNames, e \in OriginEnds}

InitOrigin ==
    /\ InitCommon
    /\ fs = [cp \in CachePaths |-> NoFile]
    /\ \E o \in Origins : gitcfg = [d \in Repos |-> o]

NextOrigin ==
    \/ \E op \in {"origin", "_parse_origin", "API_URL", "URL"} :
         Call_property(1, RepoA, op)
    \/ co_getcwd(1)
    \/ co_chdir(1)
    \/ co_check_call(1)
    \/ co_finally(1)
    \/ step_parse_origin(1)
    \/ Finish(1)

SpecOrigin == InitOrigin /\ [][NextOrigin]_vars

(***************************************************************************)
(* The cache file changed from outside the process between the freshness   *)
(* check of line 204 and the read of line 205: another process removes     *)
(* it, or has just opened it for writing.                                  *)
(***************************************************************************)
\* some thread has checked the freshness of cp and not yet read it
InRaceWindow(cp) ==
    \E t \in Threads : th[t].pc = "get" /\ cache_path(th[t].path) = cp

Outside_unlink(cp) ==
    /\ InRaceWindow(cp)
    /\ fs[cp].kind = "file"
    /\ fs' = [fs EXCEPT ![cp] = NoFile]
    /\ hist' = [hist EXCEPT ![cp] = NoHist]
    /\ UNCHANGED <<tz, clock, ticks, cwd, gitcfg, th>>

Outside_truncate(cp) ==
    /\ InRaceWindow(cp)
    /\ fs[cp].kind = "file"
    /\ fs[cp].data # << >>
    /\ fs' = [fs EXCEPT ![cp] = open_wt(@, clock)]
    /\ hist' = [hist EXCEPT ![cp] = NoHist]
    /\ UNCHANGED <<tz, clock, ticks, cwd, gitcfg, th>>

NextOutside ==
    \/ Next
    \/ Outside_unlink(cache_path(RepoA))
    \/ Outside_truncate(cache_path(RepoA))

SpecOutside == Init /\ [][NextOutside]_vars

(***************************************************************************)
(* One process that polls: a sequence of get_last_github_commit calls on   *)
(* one repository, and nothing else that touches the cache file.           *)
(***************************************************************************)
\* max_hours of the polling calls: none, and the default of line 178
PollHours == {0, 1}

NextPolling ==
    \/ \E h \in PollHours : Call_get_last_github_commit(1, RepoA, h)
    \/ Step(1)
    \/ Tick

SpecPolling == Init /\ [][NextPolling]_vars

(***************************************************************************)
(* Two threads of one process, each running check_output (through the      *)
(* property revision) against its own repository, with no lock: the calls  *)
(* may follow one another or overlap.                                      *)
(***************************************************************************)
\* the repository of each thread
RepoOf(t) == IF t = 1 THEN RepoA ELSE RepoB

InitThreads ==
    /\ InitCommon
    /\ fs = [cp \in CachePaths |-> NoFile]
    /\ gitcfg = [d \in Repos |-> ORIGIN_HTTPS]

NextThreads ==
    \/ \E t \in Threads : Call_property(t, RepoOf(t), "revision")
    \/ \E t \in Threads : co_getcwd(t)
    \/ \E t \in Threads : co_chdir(t)
    \/ \E t \in Threads : co_check_call(t)
    \/ \E t \in Threads : co_finally(t)
    \/ \E t \in Threads : Finish(t)

SpecThreads == InitThreads /\ [][NextThreads]_vars

(***************************************************************************)
(* The conversion of the date on its own: the call has sent its request    *)
(* and the answer's first commit carries one of Dates; the process runs    *)
(* in one of TimeZones.                                                    *)
(***************************************************************************)
\* years whose seconds fit 32-bit integers
DateYears == {1904, 1969, 1970, 1972, 2000, 2014, 2037}

DateMonths == {1, 2, 3, 10, 12}

DateDays == {1, 23, 28, 29, 31}

DateHours == {0, 12, 23}

DateMinutes == {0, 18, 59}

DateSeconds == {0, 13, 59}

\* the local time zones, in seconds east of UTC
TimeZones == {-18000, 0, 7200}

\* n written with two digits, and with four
Pad2(n) == <<DigitChar(n \div 10), DigitChar(n % 10)>>

Pad4(n) == Pad2(n \div 100) \o Pad2(n % 100)

\* "YYYY-MM-DDTHH:MM:SSZ", as the API writes a date (lines 220-222)
DateStr(Y, m, d, H, M, S) ==
    Pad4(Y) \o <<"-">> \o Pad2(m) \o <<"-">> \o Pad2(d) \o <<"T">>
            \o Pad2(H) \o <<":">> \o Pad2(M) \o <<":">> \o Pad2(S) \o <<"Z">>

\* the dates of the calendar among the chosen fields
Dates ==
    {DateStr(c[1], c[2], c[3], c[4], c[5], c[6]) :
        c \in {x \in DateYears \X DateMonths \X DateDays
                        \X DateHours \X DateMinutes \X DateSeconds :
                  x[3] <= mdays(x[1], x[2])}}

\* get_last_github_commit after line 215, with the answer r
AfterRequest(r) ==
    [Started("get_last_github_commit", RepoA) EXCEPT
        !.pc = "json", !.max_hours = 1, !.git_args = "config",
        !.co = Return(ORIGIN_HTTPS), !.origin = ORIGIN_HTTPS,
        !.url = API_URL(ORIGIN_HTTPS).val, !.r = r, !.http_at = clock,
        !.log = <<[ev |-> "miss", dir |-> Home],
                  [ev |-> "config", dir |-> RepoA],
                  [ev |-> "http", dir |-> Home]>>]

InitDate ==
    /\ clock = 0
    /\ ticks = 0
    /\ cwd = Home
    /\ hist = [cp \in CachePaths |-> NoHist]
    /\ fs = [cp \in CachePaths |-> NoFile]
    /\ gitcfg = [d \in Repos |-> ORIGIN_HTTPS]
    /\ tz \in TimeZones
    /\ \E d \in Dates :
         th = [t \in Threads |->
                 IF t = 1
                 THEN AfterRequest(Response("ok", "array",
                                            <<Entry(TRUE, SHA1, TRUE, d)>>))
                 ELSE IdleTh]

NextDate ==
    \/ step_json(1)
    \/ step_strptime(1)
    \/ co_getcwd(1)
    \/ co_chdir(1)
    \/ co_check_call(1)
    \/ co_finally(1)
    \/ set_open(1)
    \/ set_dump(1)
    \/ Finish(1)

SpecDate == InitDate /\ [][NextDate]_vars

(***************************************************************************)
(* Two threads that call get_last_github_commit on the same repository     *)
(* with no lock.  Both calls have missed and have sent their requests;     *)
(* each has its own answer, and each goes on to write the cache file.      *)
(***************************************************************************)
InitWriters ==
    /\ clock = 0
    /\ ticks = 0
    /\ cwd = Home
    /\ hist = [cp \in CachePaths |-> NoHist]
    /\ fs = [cp \in CachePaths |-> NoFile]
    /\ gitcfg = [d \in Repos |-> ORIGIN_HTTPS]
    /\ tz = 0
    /\ \E r1 \in GoodResponses, r2 \in GoodResponses :
         th = [t \in Threads |->
                 [AfterRequest(IF t = 1 THEN r1 ELSE r2)
                    EXCEPT !.overlap = TRUE]]

NextWriters ==
    \/ \E t \in Threads : step_json(t)
    \/ \E t \in Threads : step_strptime(t)
    \/ \E t \in Threads : co_getcwd(t)
    \/ \E t \in Threads : co_chdir(t)
    \/ \E t \in Threads : co_check_call(t)
    \/ \E t \in Threads : co_finally(t)
    \/ \E t \in Threads : set_open(t)
    \/ \E t \in Threads : set_dump(t)
    \/ \E t \in Threads : Finish(t)

SpecWriters == InitWriters /\ [][NextWriters]_vars

(***************************************************************************)
(* Properties.                                                             *)
(***************************************************************************)
HasEv(log, name) == \E i \in 1..Len(log) : log[i].ev = name

CountEv(log, name) == Cardinality({i \in 1..Len(log) : log[i].ev = name})

\* the steps of a log, without their directories
Evs(log) == [i \in 1..Len(log) |-> log[i].ev]

\* the cache file was fresh when the call checked it: it existed and
\* now - mtime <= max_hours * 3600
FreshAtCheck(me) ==
    /\ me.f0.kind = "file"
    /\ me.now - me.f0.mtime <= me.max_hours * 3600

\* C1: whenever get_last_github_commit is called and the cache file is fresh,
\* the call returns the pair stored in the cache file and performs no HTTP
\* request and no 'git rev-parse'.
C1_FreshCallReturnsCachedPair ==
    \A t \in Threads :
      LET me == th[t]
      IN  (/\ me.pc = "done"
           /\ me.op = "get_last_github_commit"
           /\ FreshAtCheck(me))
          => /\ me.result.kind = "return"
             /\ json_dumps(me.result.val) = me.f0.data
             /\ ~HasEv(me.log, "http")
             /\ ~HasEv(me.log, "rev-parse")

\* the epoch seconds of the dates the API answers with, from the calendar
C2_Epoch(d) ==
    CASE d = DATE1 -> 1414066693
      [] d = DATE2 -> 0
      [] OTHER -> -1

\* the text of the cache file in the scenario of the specification
C2_Text1 == <<"[", "\"", "5", "1", "2", "7", "7", "f", "c", "\"", ",", " ", "1", "4", "1", "4", "0", "6", "6", "6", "9", "3", "]">>

\* C2: a call of get_last_github_commit with the cache absent or stale in
\* which every step succeeds runs, in this order, the HTTP GET, the
\* extraction of sha and date of the first entry, the conversion of the date,
\* 'git rev-parse --short', the cache write, and returns (short hash of that
\* sha, epoch of that date), and the cache file then holds that same pair.
C2_MissPathOrderAndResult ==
    \A t \in Threads :
      LET me == th[t]
          f  == fs[cache_path(me.path)]
      IN  (/\ me.pc = "done"
           /\ me.op = "get_last_github_commit"
           /\ ~FreshAtCheck(me)
           /\ me.result.kind = "return")
          => /\ Evs(me.log) = <<"miss", "config", "http", "json", "timegm",
                                "rev-parse", "open", "dump">>
             /\ me.r.status = "ok"
             /\ me.result.val = <<SubSeq(me.r.entries[1].sha, 1, 7),
                                  C2_Epoch(me.r.entries[1].date)>>
             /\ f.kind = "file"
             /\ f.data = json_dumps(me.result.val)
             /\ (me.r.entries[1].sha = SHA1 /\ me.r.entries[1].date = DATE1)
                  => f.data = C2_Text1

\* a stale cache file was replaced by the pair of a successful remote query
C2_Witness ==
    \E t \in Threads :
      /\ th[t].pc = "done"
      /\ th[t].op = "get_last_github_commit"
      /\ th[t].result.kind = "return"
      /\ th[t].f0.kind = "file"
      /\ ~FreshAtCheck(th[t])
      /\ th[t].r.status = "ok"
      /\ th[t].r.entries[1].sha = SHA1

C5_SetThenGet ==
    \A t \in Threads :
      LET me == th[t]
          cp == cache_path(me.path)
      IN  /\ (me.pc = "done" /\ me.op = "get" /\ hist[cp].ok)
             => /\ me.result.kind = "return"
                /\ me.result.val = hist[cp].args
          /\ (me.pc = "done" /\ me.op = "set" /\ me.result.kind = "return")
             => /\ hist[cp].ok
                /\ hist[cp].args = me.args
                /\ fs[cp].data = <<"[", "\"">> \o me.args[1] \o <<"\"", ",", " ">>
                                   \o IntChars(me.args[2]) \o <<"]">>

\* get returned the pair of a set that replaced the text of another pair
C5_Witness ==
    \E t \in Threads :
      LET cp == cache_path(th[t].path)
      IN  /\ th[t].pc = "done"
          /\ th[t].op = "get"
          /\ hist[cp].ok
          /\ hist[cp].before # << >>
          /\ hist[cp].before # fs[cp].data
          /\ th[t].result.kind = "return"
          /\ th[t].result.val = hist[cp].args

\* the positions of a call inside the with block of check_output
InTmpChdir == {"check_call", "finally"}

\* C6: for every call of check_output made by a single thread, the working
\* directory after the call is the one before the call, on every exit path:
\* normal return, non-zero exit, failing chdir, raising file I/O.  (In a call,
\* outside the with block of check_output, the working directory is the one
\* the call began with.)
C6_CwdRestored ==
    \A t \in Threads :
      (th[t].op # "none" /\ th[t].pc \notin InTmpChdir) => cwd = th[t].cwd0

\* a call ended with the command's non-zero exit, after running it in the
\* repository, and the working directory is back
C6_Witness ==
    \E t \in Threads :
      /\ th[t].pc = "done"
      /\ th[t].result.kind = "raise"
      /\ th[t].result.val = "CalledProcessError"
      /\ \E i \in 1..Len(th[t].log) :
           /\ th[t].log[i].ev \in {"describe", "config", "rev-parse"}
           /\ th[t].log[i].dir = th[t].path
           /\ th[t].log[i].dir # th[t].cwd0
      /\ cwd = th[t].cwd0

\* C7: the cache file is never partially updated: in every reachable state,
\* the states inside FileCache.set and the state a failed set leaves
\* included, a cache file that passes up_to_date holds a complete
\* [shortHash, timestamp] pair.
C7_NeverPartial ==
    \A cp \in CachePaths : \A h \in MaxHours :
      (fs[cp].kind = "file" /\ clock - fs[cp].mtime <= h * 3600)
      => json_load(fs[cp].data).kind = "return"

\* C8 as stated: when the cache file passes the freshness check of
\* get_last_github_commit and the read that follows fails, the call falls
\* back to a remote query instead of failing.
C8_ReadFailureFallsBack ==
    \A t \in Threads :
      LET me == th[t]
      IN  (/\ me.pc = "done"
           /\ me.op = "get_last_github_commit"
           /\ HasEv(me.log, "get_failed"))
          => /\ HasEv(me.log, "http")
             /\ ~(me.result.kind = "raise"
                  /\ me.result.val \in {"IOError", "ValueError"})

\* C8, amended: when the cache file passes the freshness check of
\* get_last_github_commit and the read that follows fails, the call ends
\* with the error of the read (IOError for a file that is gone, ValueError
\* for a text that is no JSON) and makes no remote query and runs no git
\* command.
C8_ReadFailurePropagates ==
    \A t \in Threads :
      LET me == th[t]
      IN  (/\ me.op = "get_last_github_commit"
           /\ HasEv(me.log, "get_failed"))
          => /\ me.pc = "done"
             /\ FreshAtCheck(me)
             /\ me.result.kind = "raise"
             /\ me.result.val =
                  (IF fs[cache_path(me.path)].kind = "file"
                   THEN "ValueError" ELSE "IOError")
             /\ Evs(me.log) = <<"hit", "get_failed">>

\* the file passed the check, was removed before the read, and the call
\* ended with IOError
C8_Witness ==
    \E t \in Threads :
      /\ th[t].pc = "done"
      /\ th[t].op = "get_last_github_commit"
      /\ FreshAtCheck(th[t])
      /\ HasEv(th[t].log, "get_failed")
      /\ fs[cache_path(th[t].path)].kind = "absent"
      /\ th[t].result.kind = "raise"
      /\ th[t].result.val = "IOError"

\* the request of a call failed: requests.get raised, the body is no JSON,
\* or it holds no commit entry
C9_RequestFailed(r) ==
    \/ r.status \in {"ConnectionError", "Timeout"}
    \/ r.status = "ok" /\ r.body \in {"nonjson", "object"}
    \/ r.status = "ok" /\ r.body = "array" /\ Len(r.entries) = 0

\* the exception that failure raises
C9_Failure(r) ==
    CASE r.status # "ok" -> r.status
      [] r.body = "nonjson" -> "ValueError"
      [] r.body = "object" -> "KeyError"
      [] OTHER -> "IndexError"

\* C9: no retry: every call of get_last_github_commit issues at most one HTTP
\* GET, and when that request fails the call ends with that failure raised
\* to the caller, without a second attempt.
C9_NoRetry ==
    \A t \in Threads :
      LET me == th[t]
      IN  /\ CountEv(me.log, "http") <= 1
          /\ (HasEv(me.log, "http") /\ C9_RequestFailed(me.r)
              /\ me.pc \notin {"json"})
             => /\ me.pc = "done"
                /\ me.result = Raise(C9_Failure(me.r))
                /\ ~HasEv(me.log, "rev-parse")
                /\ ~HasEv(me.log, "open")

\* a call ended with the Timeout of its one request
C9_Witness ==
    \E t \in Threads :
      /\ th[t].pc = "done"
      /\ th[t].op = "get_last_github_commit"
      /\ th[t].r.status = "Timeout"
      /\ th[t].result = Raise("Timeout")
      /\ CountEv(th[t].log, "http") = 1

C10_GIT_FORM == <<"g", "i", "t", "@", "g", "i", "t", "h", "u", "b", ".", "c", "o", "m", ":">>

C10_HTTPS_FORM == <<"h", "t", "t", "p", "s", ":", "/", "/", "g", "i", "t", "h", "u", "b", ".", "c", "o", "m", "/">>

C10_DOT_GIT == <<".", "g", "i", "t">>

\* s is exactly git@github.com:<owner>/<repo>.git or
\* https://github.com/<owner>/<repo>.git, owner and repo made of word
\* characters
C10_ExactForm(s) ==
    \E head \in {C10_GIT_FORM, C10_HTTPS_FORM} :
      \E i \in 1..Len(s), j \in 1..Len(s) :
        /\ LitAt(s, 1, head)
        /\ Len(head) < i /\ i < j
        /\ \A k \in (Len(head) + 1)..(i - 1) : s[k] \in WordChars
        /\ i - 1 > Len(head)
        /\ s[i] = "/"
        /\ \A k \in (i + 1)..(j - 1) : s[k] \in WordChars
        /\ j - 1 > i
        /\ LitAt(s, j, C10_DOT_GIT)
        /\ Len(s) = j + 3

\* C10: for every origin URL that is not exactly of one of the two forms,
\* _parse_origin fails with the unrecognized-origin error, and API_URL and
\* URL fail with it too instead of returning a URL.
C10_UnrecognizedOriginFails ==
    \A t \in Threads :
      LET me == th[t]
      IN  (/\ me.pc = "done"
           /\ me.op \in {"_parse_origin", "API_URL", "URL"}
           /\ me.co.kind = "return"
           /\ ~C10_ExactForm(gitcfg[me.path]))
          => /\ me.result.kind = "raise"
             /\ me.result.val = "AttributeError"

\* the calendar, counted from 1970 a year and a month at a time
C11_Leap(y) == IF y % 400 = 0 THEN TRUE ELSE IF y % 100 = 0 THEN FALSE ELSE y % 4 = 0

C11_YearDays(y) == IF C11_Leap(y) THEN 366 ELSE 365

C11_MonthDays(y) ==
    <<31, IF C11_Leap(y) THEN 29 ELSE 28, 31, 30, 31, 30, 31, 31, 30, 31, 30, 31>>

\* the days from 1970-01-01 to January 1st of year y
RECURSIVE C11_DaysToYear(_)
C11_DaysToYear(y) ==
    IF y = 1970 THEN 0
    ELSE IF y > 1970 THEN C11_DaysToYear(y - 1) + C11_YearDays(y - 1)
    ELSE C11_DaysToYear(y + 1) - C11_YearDays(y)

\* the days from January 1st of year y to the first of month m
RECURSIVE C11_DaysToMonth(_, _)
C11_DaysToMonth(y, m) ==
    IF m = 1 THEN 0 ELSE C11_DaysToMonth(y, m - 1) + C11_MonthDays(y)[m - 1]

\* the number at positions a..b of s
C11_Field(s, a, b) == DecVal(SubSeq(s, a, b))

\* the seconds from 1970-01-01T00:00:00Z to the instant s names, s of the
\* form YYYY-MM-DDTHH:MM:SSZ
C11_SecondsSinceEpoch(s) ==
    LET Y == C11_Field(s, 1, 4)
        m == C11_Field(s, 6, 7)
        days == C11_DaysToYear(Y) + C11_DaysToMonth(Y, m)
                  + C11_Field(s, 9, 10) - 1
    IN  days * 86400 + C11_Field(s, 12, 13) * 3600
          + C11_Field(s, 15, 16) * 60 + C11_Field(s, 18, 19)

\* C11: for every author date YYYY-MM-DDTHH:MM:SSZ that names an instant of
\* the calendar, the timestamp get_last_github_commit returns and caches is
\* the number of seconds from 1970-01-01T00:00:00Z to that instant taken as
\* UTC, whatever the local time zone of the process.
C11_TimestampIsUtcEpoch ==
    \A t \in Threads :
      LET me == th[t]
      IN  (/\ me.pc = "done"
           /\ me.op = "get_last_github_commit"
           /\ me.date_str \in Dates)
          => /\ me.result.kind = "return"
                => /\ me.result.val[2] = C11_SecondsSinceEpoch(me.date_str)
                   /\ get(fs[cache_path(me.path)])
                        = Return(<<me.short_hash,
                                   C11_SecondsSinceEpoch(me.date_str)>>)
             \* the conversion itself never fails on such a date
             /\ ~(me.result = Raise("ValueError"))

\* the call returned for 2014-10-23T12:18:13Z in a process whose local time
\* is not UTC, and the timestamp is 1414066693
C11_Witness ==
    /\ tz # 0
    /\ th[1].pc = "done"
    /\ th[1].op = "get_last_github_commit"
    /\ th[1].date_str = DATE1
    /\ th[1].result = Return(<<SubSeq(SHA1, 1, 7), 1414066693>>)
    /\ get(fs[cache_path(RepoA)]) = th[1].result

\* a call of get_last_github_commit that took the miss path and ended with an
\* exception before FileCache.set opened the cache file
C12_FailedBeforeWrite(me) ==
    /\ me.pc = "done"
    /\ me.op = "get_last_github_commit"
    /\ HasEv(me.log, "miss")
    /\ me.result.kind = "raise"
    /\ ~HasEv(me.log, "open")

\* C12: when get_last_github_commit takes the miss path and a step before the
\* cache write fails (git config, the origin, the HTTP request, the JSON
\* body, a missing sha or date, the timestamp, git rev-parse), the cache file
\* is as it was before the call: same existence, same contents, same
\* modification time.
C12_FailureLeavesCacheUnchanged ==
    \A t \in Threads :
      C12_FailedBeforeWrite(th[t])
        => fs[cache_path(th[t].path)] = th[t].f0

\* 'git rev-parse' exited non-zero after a good answer of the API, with a
\* stale cache file of an earlier run, which is still there as it was
C12_Witness ==
    /\ C12_FailedBeforeWrite(th[1])
    /\ th[1].git_args = "rev-parse"
    /\ th[1].result = Raise("CalledProcessError")
    /\ th[1].r \in GoodResponses
    /\ th[1].f0 = OldFile
    /\ fs[cache_path(RepoA)] = OldFile
    /\ clock > SecondsPerHour

\* some call failed at each of the earlier steps
C12_WitnessEarlySteps ==
    /\ C12_FailedBeforeWrite(th[1])
    /\ th[1].f0 = OldFile
    /\ \/ th[1].r.status = "Timeout"
       \/ th[1].result = Raise("IndexError")
       \/ (th[1].date_str = DATE_FRACTION /\ th[1].result = Raise("ValueError"))

\* thread t sends its HTTP GET in this step
C13_SendsGet(t) ==
    /\ th[t].pc = "requests_get"
    /\ th'[t].pc # "requests_get"

C14_HitPathStep(t) ==
    /\ th[t].op = "get_last_github_commit"
    /\ th[t].pc \in {"up_to_date", "get"}
    /\ th'[t] # th[t]

\* C14: a cache hit of get_last_github_commit leaves the text and the
\* modification time of the cache file as they were, so the expiry does not
\* slide: however many calls were served from the cache, a call that checks
\* more than max_hours*3600 seconds after the last completed write of the
\* entry finds it stale and takes the miss path.
C14_HitLeavesFileExpiryFixed ==
    [][\A t \in Threads :
         LET cp == cache_path(th[t].path)
             h  == hist[cp]
         IN  /\ C14_HitPathStep(t) => fs'[cp] = fs[cp]
             /\ (/\ C14_HitPathStep(t)
                 /\ th[t].pc = "up_to_date"
                 /\ h.ok
                 /\ clock - h.at > th[t].max_hours * 3600)
                => th'[t].pc = "getcwd"]_vars

\* the entry written by a remote query was served from the cache, the file
\* still has the modification time of the write, and a call with
\* max_hours = 1 made 3601 seconds after the write has found it stale
C14_Witness ==
    LET h == hist[cache_path(RepoA)]
    IN  /\ h.ok
        /\ h.hit
        /\ fs[cache_path(RepoA)].mtime = h.at
        /\ fs[cache_path(RepoA)].data = json_dumps(h.args)
        /\ th[1].op = "get_last_github_commit"
        /\ th[1].max_hours = 1
        /\ th[1].now - h.at = SecondsPerHour + 1
        /\ Evs(th[1].log) = <<"miss">>

\* the git commands check_output runs
C15_Commands == {"describe", "config", "rev-parse"}

\* C15: the change of the working directory is not safe for concurrent
\* calls.  With two threads running check_output against different
\* repositories, a call that no other call overlaps (the calls are
\* serialized) runs every command with the working directory equal to its
\* own repository; calls that overlap can run a command while the working
\* directory is the other repository's (C15_Witness).
C15_SerializedRunsInOwnRepo ==
    \A t \in Threads :
      \A i \in 1..Len(th[t].log) :
        (th[t].log[i].ev \in C15_Commands /\ ~th[t].overlap)
          => th[t].log[i].dir = th[t].path

\* a thread has run its git command while the working directory was the
\* repository of the other thread
C15_Witness ==
    \E t \in Threads, u \in Threads :
      /\ t # u
      /\ th[t].overlap
      /\ th[t].path # th[u].path
      /\ th[u].path \in Repos
      /\ \E i \in 1..Len(th[t].log) :
           /\ th[t].log[i].ev \in C15_Commands
           /\ th[t].log[i].dir = th[u].path

\* both threads have made a call, one after the other, and each command ran
\* in its own repository
C15_WitnessSerialized ==
    /\ th[1].pc = "done" /\ th[2].pc = "done"
    /\ ~th[1].overlap /\ ~th[2].overlap
    /\ \A t \in Threads :
         /\ Len(th[t].log) = 1
         /\ th[t].log[1].dir = th[t].path

\* the call of thread t took the miss path and its cache.set completed
C16_Wrote(t) ==
    /\ th[t].pc = "done"
    /\ th[t].op = "get_last_github_commit"
    /\ th[t].result.kind = "return"
    /\ HasEv(th[t].log, "miss")
    /\ HasEv(th[t].log, "dump")

\* C16: when two get_last_github_commit calls both miss and write the cache
\* file of the same repository concurrently, the last write wins: in every
\* interleaving, once both writes have completed the file holds exactly the
\* complete pair written by one of the two, never a mix or malformed text.
C16_LastWriteWins ==
    (/\ C16_Wrote(1) /\ C16_Wrote(2)
     /\ th[1].path = th[2].path
     /\ th[1].overlap /\ th[2].overlap)
    => \E t \in Threads :
         fs[cache_path(th[t].path)].data = json_dumps(th[t].args)

=============================================================================
